---------------------------- MODULE Spec2Model ----------------------------
(***************************************************************************)
(* Pool lifecycle of lightweight-php: PoolManager.CreatePool, DeletePool   *)
(* and UpdatePoolConfig working on the filesystem, the SQLite registry     *)
(* (tables php_versions and pools) and the systemd supervisor.             *)
(*                                                                         *)
(* Strings the code computes with are sequences of characters (one-letter  *)
(* strings); a path is the sequence of its components, so filepath.Join is *)
(* concatenation of component lists and filepath.Dir drops the last one.   *)
(* Usernames and versions of the model hold no "/".                        *)
(*                                                                         *)
(* Every system call and SQL statement of a handler is one step of the     *)
(* worker (request goroutine) running it; pc[w] is the worker's position.  *)
(* A step whose error the code tests may fail: the failure is chosen       *)
(* nondeterministically.                                                   *)
(***************************************************************************)
EXTENDS Naturals, Sequences, FiniteSets, TLC

VARIABLES
    osFamily,     \* system.OSFamily captured at construction
    dirs,         \* directories that exist (created by os.MkdirAll)
    files,        \* path -> content of the configuration files that exist
    phpVersions,  \* rows of table php_versions
    pools,        \* rows of table pools
    systemctl,    \* number of systemctl commands the supervisor has received
    pc,           \* worker -> position in the handler it runs
    call,         \* worker -> arguments and locals of its current/last call
    ret,          \* worker -> what its last call returned
    ncalls,       \* calls started so far
    createdOk,    \* history: <<username, version, provider>> of the CreatePool
                  \* calls that returned nil, until a DeletePool of the
                  \* username is called
    deletedOk,    \* history: usernames whose DeletePool returned nil, until
                  \* a CreatePool is called
    external      \* history: paths removed from outside the program

vars == <<osFamily, dirs, files, phpVersions, pools, systemctl, pc, call, ret,
          ncalls, createdOk, deletedOk, external>>

---------------------------------------------------------------------------
(* Bounds *)

\* Calls started in one behaviour of the concurrent specification.
MaxCalls == 3

\* Calls started in one behaviour of the one-at-a-time specification.
MaxCallsSeq == 3

\* Files removed from outside the program in one behaviour.
MaxExternal == 1

\* Calls started in one behaviour of the specification with a supervisor
\* that may not answer.
MaxCallsHang == 2

\* Request goroutines that may run handlers at the same time.
Workers == {"w1", "w2"}

---------------------------------------------------------------------------
(* Strings and paths *)

alice == <<"a", "l", "i", "c", "e">>
bob == <<"b", "o", "b">>
mallory == <<"m", "a", "l">>

v82 == <<"8", ".", "2">>
v99 == <<"9", ".", "9">>

\* Accounts of the host: user.Lookup succeeds exactly for these.
ExistingUsers == {alice, bob}


\* strings.ReplaceAll(s, old, "") for a one-character old.
ReplaceAllEmpty(s, old) == SelectSeq(s, LAMBDA c : c # old)

\* filepath.Dir of a path with at least one component.
Dir(path) == SubSeq(path, 1, Len(path) - 1)

\* user.Lookup(username): err == nil.
UserExists(username) == username \in ExistingUsers

---------------------------------------------------------------------------
(* Providers *)

ProviderTypes == {"remi", "lsphp", "alt-php", "docker"}

\* The switch of CreatePool falling back to remi for an unknown type.
ProviderTypeEnumLenient(providerType) ==
    IF providerType \in ProviderTypes THEN providerType ELSE "remi"

\* The switch of CreatePool / DeletePool / UpdatePoolConfig over the
\* provider string; "" stands for no enum value (the default: arm of
\* CreatePool returns an error).
ProviderTypeEnum(providerType) ==
    IF providerType \in ProviderTypes THEN providerType ELSE ""

\* The switch of DeletePool / UpdatePoolConfig: unknown falls back to remi.
ProviderTypeEnumOrRemi(providerType) ==
    IF providerType \in ProviderTypes THEN providerType ELSE "remi"

\* ListAvailablePHP: the versions every provider offers.
ListAvailablePHP ==
    { <<"8", ".", "3">>, <<"8", ".", "2">>, <<"8", ".", "1">>, <<"8", ".", "0">>,
      <<"7", ".", "4">> }

RemiGetServiceName(version) ==
    IF osFamily = "rhel"
    THEN <<"p", "h", "p">> \o ReplaceAllEmpty(version, ".") \o <<"-php-fpm">>
    ELSE <<"p", "h", "p">> \o version \o <<"-fpm">>

RemiGetSocketPath(username, version) ==
    IF osFamily = "rhel"
    THEN << <<"var">>, <<"opt">>, <<"remi">>,
            <<"p", "h", "p">> \o ReplaceAllEmpty(version, "."),
            <<"run">>, <<"php-fpm">>, username \o <<".sock">> >>
    ELSE << <<"var">>, <<"run">>, <<"php">>,
            <<"p", "h", "p">> \o version \o <<"-">> \o username \o <<".sock">> >>

RemiGetConfigPath(username, version) ==
    IF osFamily = "rhel"
    THEN << <<"etc">>, <<"opt">>, <<"remi">>,
            <<"p", "h", "p">> \o ReplaceAllEmpty(version, "."),
            <<"php-fpm.d">>, username \o <<".conf">> >>
    ELSE << <<"etc">>, <<"php">>, version, <<"fpm">>, <<"pool.d">>,
            username \o <<".conf">> >>

LiteSpeedGetServiceName(version) == <<"l", "s", "w", "s">>

LiteSpeedGetSocketPath(username, version) ==
    << <<"tmp">>,
       <<"l", "s", "p", "h", "p">> \o ReplaceAllEmpty(version, ".")
           \o <<"-">> \o username \o <<".sock">> >>

LiteSpeedGetConfigPath(username, version) ==
    << <<"usr">>, <<"local">>, <<"lsws">>, <<"conf">>,
       username \o <<"-">> \o version \o <<".conf">> >>

AltPHPGetServiceName(version) ==
    <<"alt-php">> \o ReplaceAllEmpty(version, ".") \o <<"-php-fpm">>

AltPHPGetSocketPath(username, version) ==
    << <<"var">>, <<"run">>,
       <<"alt-php">> \o ReplaceAllEmpty(version, "."),
       username \o <<".sock">> >>

\* filepath.Join does not format: the "%s" stays in the first component
\* and the version number is a component of its own.
AltPHPGetConfigPath(username, version) ==
    << <<"etc">>, <<"opt">>, <<"alt">>, <<"php%s">>,
       ReplaceAllEmpty(version, "."), <<"php-fpm.d">>,
       username \o <<".conf">> >>

DockerGetServiceName(version) == <<"php-">> \o version \o <<"-fpm">>

DockerGetSocketPath(username, version) ==
    << <<"var">>, <<"run">>, <<"docker">>,
       <<"php-">> \o version \o <<"-">> \o username \o <<".sock">> >>

DockerGetConfigPath(username, version) ==
    << <<"etc">>, <<"docker">>, <<"php">>, version, username \o <<".conf">> >>

GetServiceName(p, version) ==
    CASE p = "remi" -> RemiGetServiceName(version)
      [] p = "lsphp" -> LiteSpeedGetServiceName(version)
      [] p = "alt-php" -> AltPHPGetServiceName(version)
      [] p = "docker" -> DockerGetServiceName(version)

GetSocketPath(p, username, version) ==
    CASE p = "remi" -> RemiGetSocketPath(username, version)
      [] p = "lsphp" -> LiteSpeedGetSocketPath(username, version)
      [] p = "alt-php" -> AltPHPGetSocketPath(username, version)
      [] p = "docker" -> DockerGetSocketPath(username, version)

GetConfigPath(p, username, version) ==
    CASE p = "remi" -> RemiGetConfigPath(username, version)
      [] p = "lsphp" -> LiteSpeedGetConfigPath(username, version)
      [] p = "alt-php" -> AltPHPGetConfigPath(username, version)
      [] p = "docker" -> DockerGetConfigPath(username, version)


---------------------------------------------------------------------------
(* Configuration renderer *)

Digits == <<"0", "1", "2", "3", "4", "5", "6", "7", "8", "9">>

\* fmt.Sprintf("%.0f", v) for a whole, non-negative v.
RECURSIVE FormatFloat0(_)
FormatFloat0(v) ==
    IF v < 10 THEN <<Digits[v + 1]>>
    ELSE FormatFloat0(v \div 10) \o <<Digits[(v % 10) + 1]>>

\* The group the pool runs as: the name of the user's primary group.
GroupName(username) == username

\* DefaultPoolConfigData leaving the numeric fields at the zero value of
\* the struct.
DefaultPoolConfigDataZero(username, group, socketPath) ==
    [ PoolName |-> username,
      Username |-> username,
      Group |-> group,
      SocketPath |-> socketPath,
      ListenMode |-> "0660",
      ProcessManager |-> "dynamic",
      MaxChildren |-> 0,
      StartServers |-> 0,
      MinSpareServers |-> 0,
      MaxSpareServers |-> 0,
      MaxRequests |-> 0,
      ProcessIdleTimeout |-> <<>>,
      DisplayErrors |-> "off",
      LogErrors |-> "on",
      MemoryLimit |-> "128M",
      MaxExecutionTime |-> <<>> ]

DefaultPoolConfigData(username, group, socketPath) ==
    [ PoolName |-> username,
      Username |-> username,
      Group |-> group,
      SocketPath |-> socketPath,
      ListenMode |-> "0660",
      ProcessManager |-> "dynamic",
      MaxChildren |-> 50,
      StartServers |-> 5,
      MinSpareServers |-> 5,
      MaxSpareServers |-> 35,
      MaxRequests |-> 500,
      ProcessIdleTimeout |-> <<>>,
      DisplayErrors |-> "off",
      LogErrors |-> "on",
      MemoryLimit |-> "128M",
      MaxExecutionTime |-> <<>> ]

\* JSON values as encoding/json decodes them into interface{}.
Float64(v) == [t |-> "float64", v |-> v]
String(v) == [t |-> "string", v |-> v]
Bool(v) == [t |-> "bool", v |-> v]

OnOff(b) == IF b THEN "on" ELSE "off"

\* The switch of applyPoolSettings with the process_idle_timeout arm
\* writing the field of max_execution_time.
ApplyPoolSettingShared(data, key, value) ==
    CASE key = "max_children" -> [data EXCEPT !.MaxChildren = value.v]
      [] key = "memory_limit" -> [data EXCEPT !.MemoryLimit = value.v]
      [] key = "max_execution_time" ->
           [data EXCEPT !.MaxExecutionTime =
                IF value.t = "string" THEN value.v ELSE FormatFloat0(value.v)]
      [] key = "process_idle_timeout" ->
           [data EXCEPT !.MaxExecutionTime =
                IF value.t = "string" THEN value.v ELSE FormatFloat0(value.v)]
      [] OTHER -> data

\* One iteration of the loop of applyPoolSettings: the switch over key.
ApplyPoolSetting(data, key, value) ==
    CASE key = "max_children" ->
           IF value.t = "float64" THEN [data EXCEPT !.MaxChildren = value.v] ELSE data
      [] key = "start_servers" ->
           IF value.t = "float64" THEN [data EXCEPT !.StartServers = value.v] ELSE data
      [] key = "min_spare_servers" ->
           IF value.t = "float64" THEN [data EXCEPT !.MinSpareServers = value.v] ELSE data
      [] key = "max_spare_servers" ->
           IF value.t = "float64" THEN [data EXCEPT !.MaxSpareServers = value.v] ELSE data
      [] key = "max_requests" ->
           IF value.t = "float64" THEN [data EXCEPT !.MaxRequests = value.v] ELSE data
      [] key = "process_manager" ->
           IF value.t = "string" THEN [data EXCEPT !.ProcessManager = value.v] ELSE data
      [] key = "memory_limit" ->
           IF value.t = "string" THEN [data EXCEPT !.MemoryLimit = value.v] ELSE data
      [] key = "max_execution_time" ->
           IF value.t = "string" THEN [data EXCEPT !.MaxExecutionTime = value.v]
           ELSE IF value.t = "float64"
                THEN [data EXCEPT !.MaxExecutionTime = FormatFloat0(value.v)]
                ELSE data
      [] key = "display_errors" ->
           IF value.t = "string" THEN [data EXCEPT !.DisplayErrors = value.v]
           ELSE IF value.t = "bool"
                THEN [data EXCEPT !.DisplayErrors = OnOff(value.v)]
                ELSE data
      [] key = "log_errors" ->
           IF value.t = "string" THEN [data EXCEPT !.LogErrors = value.v]
           ELSE IF value.t = "bool"
                THEN [data EXCEPT !.LogErrors = OnOff(value.v)]
                ELSE data
      [] key = "process_idle_timeout" ->
           IF value.t = "string" THEN [data EXCEPT !.ProcessIdleTimeout = value.v]
           ELSE IF value.t = "float64"
                THEN [data EXCEPT !.ProcessIdleTimeout = FormatFloat0(value.v)]
                ELSE data
      [] key = "listen_mode" ->
           IF value.t = "string" THEN [data EXCEPT !.ListenMode = value.v] ELSE data
      [] OTHER -> data

\* applyPoolSettings with the keys of the map visited in the order `keys`
\* (Go visits the keys of a map in an unspecified order).
RECURSIVE applyPoolSettings(_, _, _)
applyPoolSettings(data, settings, keys) ==
    IF keys = <<>> THEN data
    ELSE applyPoolSettings(ApplyPoolSetting(data, Head(keys), settings[Head(keys)]),
                           settings, Tail(keys))

\* The orders in which the keys of a map can be visited.
KeyOrders(settings) ==
    { o \in [1..Cardinality(DOMAIN settings) -> DOMAIN settings] :
        \A i, j \in DOMAIN o : i # j => o[i] # o[j] }

\* The pool file: its directives in order, each with its value; a directive
\* of an optional field is present only when the field is set.
RenderPoolConfig(data) ==
    << <<"[pool]", data.PoolName>>,
       <<"user", data.Username>>,
       <<"group", data.Group>>,
       <<"listen", data.SocketPath>>,
       <<"listen.owner", data.Username>>,
       <<"listen.group", data.Group>>,
       <<"listen.mode", data.ListenMode>>,
       <<"pm", data.ProcessManager>>,
       <<"pm.max_children", data.MaxChildren>>,
       <<"pm.start_servers", data.StartServers>>,
       <<"pm.min_spare_servers", data.MinSpareServers>>,
       <<"pm.max_spare_servers", data.MaxSpareServers>>,
       <<"pm.max_requests", data.MaxRequests>> >>
    \o (IF data.ProcessIdleTimeout # <<>>
        THEN << <<"pm.process_idle_timeout", data.ProcessIdleTimeout>> >>
        ELSE <<>>)
    \o << <<"php_flag[display_errors]", data.DisplayErrors>>,
          <<"php_admin_flag[log_errors]", data.LogErrors>>,
          <<"php_admin_value[memory_limit]", data.MemoryLimit>> >>
    \o (IF data.MaxExecutionTime # <<>>
        THEN << <<"php_admin_value[max_execution_time]", data.MaxExecutionTime>> >>
        ELSE <<>>)

\* generatePoolConfig: the defaults, rendered.
generatePoolConfig(username, socketPath) ==
    RenderPoolConfig(DefaultPoolConfigData(username, GroupName(username), socketPath))

\* Override maps the callers send to UpdatePoolConfig.
SettingsInputs ==
    { [k \in {"max_children"} |-> Float64(80)],
      [k \in {"memory_limit"} |-> String("256M")],
      [k \in {"max_children", "max_requests"} |->
         IF k = "max_children" THEN String("80") ELSE Float64(100)] }

\* The requests of the one-at-a-time specification, invalid ones included.
SeqInputs ==
    [ max |-> MaxCallsSeq,
      users |-> {alice, bob, mallory},
      versions |-> {v82, v99},
      providers |-> {"remi", "lsphp", "bogus"},
      settings |-> SettingsInputs ]

\* The requests of the concurrent specification: valid ones, which are
\* the ones that can race.
ConcInputs ==
    [ max |-> MaxCalls,
      users |-> {alice, bob},
      versions |-> {v82},
      providers |-> {"remi"},
      settings |-> { [k \in {"max_children"} |-> Float64(80)] } ]

---------------------------------------------------------------------------
(* Filesystem, registry and supervisor *)

\* os.MkdirAll(dir): dir and every parent of it exist afterwards.
MkdirAll(ds, dir) == ds \cup { SubSeq(dir, 1, n) : n \in 1..Len(dir) }

\* os.Stat(path): err == nil.
FileExists(path) == path \in DOMAIN files

\* os.WriteFile(path, content): creates or truncates, then writes.
WriteFile(fs, path, content) ==
    [q \in DOMAIN fs \cup {path} |-> IF q = path THEN content ELSE fs[q]]

\* os.Remove(path) of a file that may exist.
Remove(fs, path) == [q \in DOMAIN fs \ {path} |-> fs[q]]

\* What os.WriteFile leaves of a file it opened and failed to write.
Truncated == <<>>

NoPool == [username |-> <<>>]

\* The columns of the conflict target of the INSERT of Database.CreatePool.
PoolKey(row) == <<row.username, row.php_version, row.provider>>

RowsOf(username) == { r \in pools : r.username = username }

\* The created_at values a row inserted now can carry: CURRENT_TIMESTAMP
\* counts seconds, so the row is as old as the newest row or newer.
Timestamps ==
    LET ts == { r.created_at : r \in pools }
        newest == IF ts = {} THEN 0 ELSE CHOOSE t \in ts : \A u \in ts : u <= t
    IN  IF ts = {} THEN {1} ELSE {newest, newest + 1}

\* Database.CreatePool inserting the row with another status.
DbCreatePoolStopped(rows, username, phpVersion, provider, socketPath, configPath, now) ==
    rows \cup { [ username |-> username, php_version |-> phpVersion,
                  provider |-> provider, socket_path |-> socketPath,
                  config_path |-> configPath, status |-> "stopped",
                  created_at |-> now ] }

\* Database.CreatePool: INSERT ... ON CONFLICT(username, php_version,
\* provider) DO UPDATE SET socket_path, config_path.
DbCreatePool(rows, username, phpVersion, provider, socketPath, configPath, now) ==
    LET key == <<username, phpVersion, provider>>
    IN  IF \E r \in rows : PoolKey(r) = key
        THEN { IF PoolKey(r) = key
               THEN [r EXCEPT !.socket_path = socketPath, !.config_path = configPath]
               ELSE r : r \in rows }
        ELSE rows \cup { [ username |-> username, php_version |-> phpVersion,
                           provider |-> provider, socket_path |-> socketPath,
                           config_path |-> configPath, status |-> "active",
                           created_at |-> now ] }

\* Database.GetPool: SELECT ... WHERE username = ? ORDER BY created_at DESC
\* LIMIT 1: the rows the query may return (none: sql.ErrNoRows).
DbGetPool(username) ==
    { r \in RowsOf(username) : \A o \in RowsOf(username) : o.created_at <= r.created_at }

\* Router.getPool: the first pool of the user in the list of ListPools
\* (ORDER BY username, created_at DESC), none when the user has no pool.
RouterGetPool(username) ==
    { [ User |-> r.username, PHPVersion |-> r.php_version, Provider |-> r.provider,
        Status |-> r.status, ConfigPath |-> r.config_path, SocketPath |-> r.socket_path ] :
      r \in { x \in pools : /\ x.username = username
                             /\ \A o \in pools : o.username = username
                                                  => o.created_at <= x.created_at } }

\* Database.DeletePool deleting only the newest rows of the user.
DbDeletePoolNewest(rows, username) ==
    { r \in rows : ~ /\ r.username = username
                     /\ \A o \in rows : o.username = username
                                         => o.created_at <= r.created_at }

\* Database.DeletePool: DELETE FROM pools WHERE username = ?.
DbDeletePool(rows, username) == { r \in rows : r.username # username }

\* Database.GetPHPVersion: a row was found.
DbHasPHPVersion(version) == \E r \in phpVersions : r.version = version

\* Database.CreatePHPVersion tagging every row with the default provider.
PHPVersionRowRemi(version, packageManager, family) ==
    [ version |-> version, package_manager |-> "remi",
      os_family |-> family, status |-> "active" ]

\* Database.CreatePHPVersion: the row inserted.
PHPVersionRow(version, packageManager, family) ==
    [ version |-> version, package_manager |-> packageManager,
      os_family |-> family, status |-> "active" ]

\* reloadFPMService returning the error of "systemctl reload" without
\* trying "systemctl reload-or-restart".
reloadFPMServiceNoFallback(reloadOk, restartOk) ==
    [cmds |-> <<"reload">>, err |-> ~reloadOk]

\* reloadFPMService, given whether systemd carries out "systemctl reload"
\* and "systemctl reload-or-restart": the commands run, in order, and
\* whether an error is returned.
reloadFPMService(reloadOk, restartOk) ==
    IF reloadOk
    THEN [cmds |-> <<"reload">>, err |-> FALSE]
    ELSE [cmds |-> <<"reload", "reload-or-restart">>, err |-> ~restartOk]

\* The outcomes of reloadFPMService: the number of commands run and
\* whether an error is returned.
ReloadOutcomes ==
    { [cmds |-> Len(r.cmds), err |-> r.err] :
        r \in { reloadFPMService(reloadOk, restartOk) :
                  reloadOk \in BOOLEAN, restartOk \in BOOLEAN } }

---------------------------------------------------------------------------
(* Workers *)

\* What a call remembers of the state it started in (history, dropped
\* when the call returns).
NoPre == [files |-> <<>>, dirs |-> {}, pools |-> {}]
Pre == [files |-> files, dirs |-> dirs, pools |-> pools]

\* fault: a step of the call failed for a reason outside the program (the
\* disk, the database engine, systemd), not because of the state it found.
\* overlap: the latest calls of the workers ran at the same time (history).
\* fresh: a CreatePool started while its pool had neither file nor row
\* (history).
NoCall ==
    [ op |-> "none", username |-> <<>>, phpVersion |-> <<>>, providerType |-> "",
      settings |-> <<>>, dbPool |-> NoPool, pre |-> NoPre, fault |-> FALSE,
      overlap |-> FALSE, fresh |-> FALSE ]

Init ==
    /\ osFamily \in {"rhel", "debian"}
    /\ dirs = {}
    /\ files = <<>>
    /\ phpVersions = {}
    /\ pools = {}
    /\ systemctl = 0
    /\ pc = [w \in Workers |-> "idle"]
    /\ call = [w \in Workers |-> NoCall]
    /\ ret = [w \in Workers |-> "none"]
    /\ ncalls = 0
    /\ createdOk = {}
    /\ deletedOk = {}
    /\ external = {}

KeyOf(c) == <<c.username, c.phpVersion, c.providerType>>

ConfigPathOf(c) == GetConfigPath(ProviderTypeEnum(c.providerType), c.username, c.phpVersion)
SocketPathOf(c) == GetSocketPath(ProviderTypeEnum(c.providerType), c.username, c.phpVersion)

\* A call of worker w starts with arguments c; it returns r at once, or
\* goes on at label.
Enter(w, c, label, r, fault) ==
    /\ pc' = [pc EXCEPT ![w] = label]
    /\ ret' = [ret EXCEPT ![w] = r]
    /\ call' = [o \in Workers |->
            IF o = w
            THEN [c EXCEPT !.fault = fault,
                           !.pre = IF label = "idle" THEN NoPre ELSE Pre,
                           !.dbPool = IF label = "idle" THEN NoPool ELSE c.dbPool,
                           !.overlap = \E o2 \in Workers \ {w} : pc[o2] # "idle",
                           !.fresh = /\ c.op = "create"
                                     /\ ProviderTypeEnum(c.providerType) # ""
                                     /\ ConfigPathOf(c) \notin DOMAIN files
                                     /\ RowsOf(c.username) = {}]
            ELSE [call[o] EXCEPT !.overlap = pc[o] # "idle"]]
    /\ ncalls' = ncalls + 1

\* The handler of worker w returns r.
Return(w, r, fault) ==
    /\ pc' = [pc EXCEPT ![w] = "idle"]
    /\ ret' = [ret EXCEPT ![w] = r]
    /\ call' = [call EXCEPT ![w].dbPool = NoPool, ![w].pre = NoPre,
                            ![w].fault = @ \/ fault]

Goto(w, label, fault) ==
    /\ pc' = [pc EXCEPT ![w] = label]
    /\ ret' = ret
    /\ call' = [call EXCEPT ![w].fault = @ \/ fault]

---------------------------------------------------------------------------
(* PoolManager.CreatePool *)

\* Entry: user.Lookup and the switch over the provider type.
CreateCall(w, in) ==
    /\ pc[w] = "idle"
    /\ ncalls < in.max
    /\ \E u \in in.users, v \in in.versions, p \in in.providers :
         LET c == [NoCall EXCEPT !.op = "create", !.username = u,
                                 !.phpVersion = v, !.providerType = p]
         IN  /\ IF ~UserExists(u)
                THEN Enter(w, c, "idle", "user_not_found", FALSE)
                ELSE IF ProviderTypeEnum(p) = ""
                THEN Enter(w, c, "idle", "invalid_provider", FALSE)
                ELSE Enter(w, c, "c_mkdir", "running", FALSE)
             /\ deletedOk' = deletedOk \ {u}
    /\ UNCHANGED <<osFamily, dirs, files, phpVersions, pools, systemctl,
                   createdOk, external>>

\* os.MkdirAll(poolDir).
CreateMkdir(w) ==
    /\ pc[w] = "c_mkdir"
    /\ LET poolDir == Dir(ConfigPathOf(call[w]))
       IN  \/ /\ dirs' = MkdirAll(dirs, poolDir)
              /\ Goto(w, "c_stat", FALSE)
           \/ /\ poolDir \notin dirs
              /\ dirs' = dirs
              /\ Return(w, "mkdir_failed", TRUE)
    /\ UNCHANGED <<osFamily, files, phpVersions, pools, systemctl,
                   ncalls, createdOk, deletedOk, external>>

\* CreateStat without the test of os.Stat.
CreateStatNoCheck(w) ==
    /\ pc[w] = "c_stat"
    /\ Goto(w, "c_write", FALSE)
    /\ UNCHANGED <<osFamily, dirs, files, phpVersions, pools, systemctl,
                   ncalls, createdOk, deletedOk, external>>

\* os.Stat(configPath): the pool already exists when the file does.
CreateStat(w) ==
    /\ pc[w] = "c_stat"
    /\ IF FileExists(ConfigPathOf(call[w]))
       THEN Return(w, "already_exists", FALSE)
       ELSE Goto(w, "c_write", FALSE)
    /\ UNCHANGED <<osFamily, dirs, files, phpVersions, pools, systemctl,
                   ncalls, createdOk, deletedOk, external>>

\* CreateWrite going on without writing the file.
CreateWriteDeferred(w) ==
    /\ pc[w] = "c_write"
    /\ files' = files
    /\ \/ Goto(w, "c_sockdir", FALSE)
       \/ Return(w, "write_failed", TRUE)
    /\ UNCHANGED <<osFamily, dirs, phpVersions, pools, systemctl,
                   ncalls, createdOk, deletedOk, external>>

\* generatePoolConfig and os.WriteFile(configPath).
CreateWrite(w) ==
    /\ pc[w] = "c_write"
    /\ LET configPath == ConfigPathOf(call[w])
           config == generatePoolConfig(call[w].username, SocketPathOf(call[w]))
       IN  \/ /\ Dir(configPath) \in dirs
              /\ files' = WriteFile(files, configPath, config)
              /\ Goto(w, "c_sockdir", FALSE)
           \/ /\ files' = files
              /\ Return(w, "write_failed", TRUE)
           \/ /\ Dir(configPath) \in dirs
              /\ files' = WriteFile(files, configPath, Truncated)
              /\ Return(w, "write_failed", TRUE)
    /\ UNCHANGED <<osFamily, dirs, phpVersions, pools, systemctl,
                   ncalls, createdOk, deletedOk, external>>

\* os.MkdirAll(socketDir).
CreateSocketDir(w) ==
    /\ pc[w] = "c_sockdir"
    /\ LET socketDir == Dir(SocketPathOf(call[w]))
       IN  \/ /\ dirs' = MkdirAll(dirs, socketDir)
              /\ Goto(w, "c_getver", FALSE)
           \/ /\ socketDir \notin dirs
              /\ dirs' = dirs
              /\ Return(w, "sockdir_failed", TRUE)
    /\ UNCHANGED <<osFamily, files, phpVersions, pools, systemctl,
                   ncalls, createdOk, deletedOk, external>>

\* db.GetPHPVersion(phpVersion).
CreateGetVersion(w) ==
    /\ pc[w] = "c_getver"
    /\ \/ Goto(w, IF DbHasPHPVersion(call[w].phpVersion) THEN "c_insert" ELSE "c_regver", FALSE)
       \/ Return(w, "version_check_failed", TRUE)
    /\ UNCHANGED <<osFamily, dirs, files, phpVersions, pools, systemctl,
                   ncalls, createdOk, deletedOk, external>>

\* db.CreatePHPVersion(phpVersion, providerType, osFamilyStr); version is
\* UNIQUE, so the insert fails when the version has a row by now.
CreateRegisterVersion(w) ==
    /\ pc[w] = "c_regver"
    /\ \/ /\ ~DbHasPHPVersion(call[w].phpVersion)
          /\ phpVersions' = phpVersions \cup
                { PHPVersionRow(call[w].phpVersion, call[w].providerType, osFamily) }
          /\ Goto(w, "c_insert", FALSE)
       \/ /\ phpVersions' = phpVersions
          /\ Return(w, "version_register_failed",
                   ~DbHasPHPVersion(call[w].phpVersion))
    /\ UNCHANGED <<osFamily, dirs, files, pools, systemctl,
                   ncalls, createdOk, deletedOk, external>>

\* db.CreatePool(...); php_version REFERENCES php_versions(version).
CreateInsert(w) ==
    /\ pc[w] = "c_insert"
    /\ \/ /\ DbHasPHPVersion(call[w].phpVersion)
          /\ \E now \in Timestamps :
               pools' = DbCreatePool(pools, call[w].username, call[w].phpVersion,
                                     call[w].providerType, SocketPathOf(call[w]),
                                     ConfigPathOf(call[w]), now)
          /\ Goto(w, "c_reload", FALSE)
       \/ /\ pools' = pools
          /\ Goto(w, "c_rollback", TRUE)
    /\ UNCHANGED <<osFamily, dirs, files, phpVersions, systemctl,
                   ncalls, createdOk, deletedOk, external>>

\* CreateRollback without the os.Remove.
CreateRollbackKeepsFile(w) ==
    /\ pc[w] = "c_rollback"
    /\ files' = files
    /\ Return(w, "db_save_failed", FALSE)
    /\ UNCHANGED <<osFamily, dirs, phpVersions, pools, systemctl,
                   ncalls, createdOk, deletedOk, external>>

\* Rollback: os.Remove(configPath), its error dropped.
CreateRollback(w) ==
    /\ pc[w] = "c_rollback"
    /\ files' = Remove(files, ConfigPathOf(call[w]))
    /\ Return(w, "db_save_failed", FALSE)
    /\ UNCHANGED <<osFamily, dirs, phpVersions, pools, systemctl,
                   ncalls, createdOk, deletedOk, external>>

\* CreateReload with the error of reloadFPMService dropped.
CreateReloadDropsError(w) ==
    /\ pc[w] = "c_reload"
    /\ \E o \in ReloadOutcomes :
         /\ systemctl' = systemctl + o.cmds
         /\ Return(w, "ok", o.err)
         /\ createdOk' = createdOk \cup {KeyOf(call[w])}
    /\ UNCHANGED <<osFamily, dirs, files, phpVersions, pools,
                   ncalls, deletedOk, external>>

\* pm.reloadFPMService(serviceName).
CreateReload(w) ==
    /\ pc[w] = "c_reload"
    /\ \E o \in ReloadOutcomes :
         /\ systemctl' = systemctl + o.cmds
         /\ Return(w, IF o.err THEN "reload_failed" ELSE "ok", o.err)
         /\ createdOk' = IF o.err THEN createdOk ELSE createdOk \cup {KeyOf(call[w])}
    /\ UNCHANGED <<osFamily, dirs, files, phpVersions, pools,
                   ncalls, deletedOk, external>>

CreatePool(w, in) ==
    \/ CreateCall(w, in)
    \/ CreateMkdir(w)
    \/ CreateStat(w)
    \/ CreateWrite(w)
    \/ CreateSocketDir(w)
    \/ CreateGetVersion(w)
    \/ CreateRegisterVersion(w)
    \/ CreateInsert(w)
    \/ CreateRollback(w)
    \/ CreateReload(w)

---------------------------------------------------------------------------
(* PoolManager.DeletePool *)

\* Entry: db.GetPool(username).
DeleteCall(w, in) ==
    /\ pc[w] = "idle"
    /\ ncalls < in.max
    /\ \E u \in in.users :
         LET c == [NoCall EXCEPT !.op = "delete", !.username = u]
         IN  /\ \/ Enter(w, c, "idle", "db_get_failed", TRUE)
                \/ /\ DbGetPool(u) = {}
                   /\ Enter(w, c, "idle", "not_found", FALSE)
                \/ \E row \in DbGetPool(u) :
                     Enter(w, [c EXCEPT !.dbPool = row], "d_stat", "running", FALSE)
             /\ createdOk' = { k \in createdOk : k[1] # u }
    /\ UNCHANGED <<osFamily, dirs, files, phpVersions, pools, systemctl,
                   deletedOk, external>>

\* DeleteStat without the test of os.Stat.
DeleteStatNoCheck(w) ==
    /\ pc[w] = "d_stat"
    /\ Goto(w, "d_remove", FALSE)
    /\ UNCHANGED <<osFamily, dirs, files, phpVersions, pools, systemctl,
                   ncalls, createdOk, deletedOk, external>>

\* os.Stat(dbPool.ConfigPath): a missing file is skipped.
DeleteStat(w) ==
    /\ pc[w] = "d_stat"
    /\ Goto(w, IF FileExists(call[w].dbPool.config_path) THEN "d_remove" ELSE "d_reload",
            FALSE)
    /\ UNCHANGED <<osFamily, dirs, files, phpVersions, pools, systemctl,
                   ncalls, createdOk, deletedOk, external>>

\* os.Remove(dbPool.ConfigPath); fails when the file is gone by now.
DeleteRemove(w) ==
    /\ pc[w] = "d_remove"
    /\ \/ /\ FileExists(call[w].dbPool.config_path)
          /\ files' = Remove(files, call[w].dbPool.config_path)
          /\ Goto(w, "d_reload", FALSE)
       \/ /\ files' = files
          /\ Return(w, "remove_failed", FileExists(call[w].dbPool.config_path))
    /\ UNCHANGED <<osFamily, dirs, phpVersions, pools, systemctl,
                   ncalls, createdOk, deletedOk, external>>

\* DeleteReload with the rows of the user deleted before the reload.
DeleteReloadRowsFirst(w) ==
    /\ pc[w] = "d_reload"
    /\ pools' = DbDeletePool(pools, call[w].username)
    /\ \E o \in ReloadOutcomes :
         /\ systemctl' = systemctl + o.cmds
         /\ Goto(w, "d_delete", o.err)
    /\ UNCHANGED <<osFamily, dirs, files, phpVersions,
                   ncalls, createdOk, deletedOk, external>>

\* DeleteReload returning the error of reloadFPMService.
DeleteReloadReturnsError(w) ==
    /\ pc[w] = "d_reload"
    /\ \E o \in ReloadOutcomes :
         /\ systemctl' = systemctl + o.cmds
         /\ IF o.err THEN Return(w, "reload_failed", TRUE) ELSE Goto(w, "d_delete", FALSE)
    /\ UNCHANGED <<osFamily, dirs, files, phpVersions, pools,
                   ncalls, createdOk, deletedOk, external>>

\* pm.reloadFPMService(serviceName), its error dropped.
DeleteReload(w) ==
    /\ pc[w] = "d_reload"
    /\ \E o \in ReloadOutcomes :
         /\ systemctl' = systemctl + o.cmds
         /\ Goto(w, "d_delete", o.err)
    /\ UNCHANGED <<osFamily, dirs, files, phpVersions, pools,
                   ncalls, createdOk, deletedOk, external>>

\* DeleteRows with Database.DeletePool not testing RowsAffected.
DeleteRowsIgnoresCount(w) ==
    /\ pc[w] = "d_delete"
    /\ \/ /\ pools' = DbDeletePool(pools, call[w].username)
          /\ Return(w, "ok", FALSE)
          /\ deletedOk' = deletedOk \cup {call[w].username}
       \/ /\ pools' = pools
          /\ Return(w, "db_delete_failed", TRUE)
          /\ deletedOk' = deletedOk
    /\ UNCHANGED <<osFamily, dirs, files, phpVersions, systemctl,
                   ncalls, createdOk, external>>

\* db.DeletePool(username): sql.ErrNoRows when no row was deleted.
DeleteRows(w) ==
    /\ pc[w] = "d_delete"
    /\ \/ /\ RowsOf(call[w].username) # {}
          /\ pools' = DbDeletePool(pools, call[w].username)
          /\ Return(w, "ok", FALSE)
          /\ deletedOk' = deletedOk \cup {call[w].username}
       \/ /\ pools' = pools
          /\ Return(w, "db_delete_failed", RowsOf(call[w].username) # {})
          /\ deletedOk' = deletedOk
    /\ UNCHANGED <<osFamily, dirs, files, phpVersions, systemctl,
                   ncalls, createdOk, external>>

DeletePool(w, in) ==
    \/ DeleteCall(w, in)
    \/ DeleteStat(w)
    \/ DeleteRemove(w)
    \/ DeleteReload(w)
    \/ DeleteRows(w)

---------------------------------------------------------------------------
(* PoolManager.UpdatePoolConfig *)

\* Entry: db.GetPool(username) and user.Lookup(username).
UpdateCall(w, in) ==
    /\ pc[w] = "idle"
    /\ ncalls < in.max
    /\ \E u \in in.users, settings \in in.settings :
         LET c == [NoCall EXCEPT !.op = "update", !.username = u, !.settings = settings]
         IN  \/ Enter(w, c, "idle", "db_get_failed", TRUE)
             \/ /\ DbGetPool(u) = {}
                /\ Enter(w, c, "idle", "not_found", FALSE)
             \/ \E row \in DbGetPool(u) :
                  IF UserExists(u)
                  THEN Enter(w, [c EXCEPT !.dbPool = row], "u_write", "running", FALSE)
                  ELSE Enter(w, c, "idle", "user_lookup_failed", FALSE)
    /\ UNCHANGED <<osFamily, dirs, files, phpVersions, pools, systemctl,
                   createdOk, deletedOk, external>>

\* The configuration UpdatePoolConfig renders: the defaults with the
\* overrides applied, the keys visited in the order `keys`.
UpdatedConfig(c, keys) ==
    RenderPoolConfig(
        applyPoolSettings(
            DefaultPoolConfigData(c.username, GroupName(c.username), c.dbPool.socket_path),
            c.settings, keys))

\* os.WriteFile(dbPool.ConfigPath, config).
UpdateWrite(w) ==
    /\ pc[w] = "u_write"
    /\ LET configPath == call[w].dbPool.config_path
       IN  \/ /\ Dir(configPath) \in dirs
              /\ \E keys \in KeyOrders(call[w].settings) :
                   files' = WriteFile(files, configPath, UpdatedConfig(call[w], keys))
              /\ Goto(w, "u_reload", FALSE)
           \/ /\ files' = files
              /\ Return(w, "write_failed", TRUE)
           \/ /\ Dir(configPath) \in dirs
              /\ files' = WriteFile(files, configPath, Truncated)
              /\ Return(w, "write_failed", TRUE)
    /\ UNCHANGED <<osFamily, dirs, phpVersions, pools, systemctl,
                   ncalls, createdOk, deletedOk, external>>

\* UpdateReload with the error of reloadFPMService dropped.
UpdateReloadDropsError(w) ==
    /\ pc[w] = "u_reload"
    /\ \E o \in ReloadOutcomes :
         /\ systemctl' = systemctl + o.cmds
         /\ Return(w, "ok", o.err)
    /\ UNCHANGED <<osFamily, dirs, files, phpVersions, pools,
                   ncalls, createdOk, deletedOk, external>>

\* pm.reloadFPMService(serviceName).
UpdateReload(w) ==
    /\ pc[w] = "u_reload"
    /\ \E o \in ReloadOutcomes :
         /\ systemctl' = systemctl + o.cmds
         /\ Return(w, IF o.err THEN "reload_failed" ELSE "ok", o.err)
    /\ UNCHANGED <<osFamily, dirs, files, phpVersions, pools,
                   ncalls, createdOk, deletedOk, external>>

UpdatePoolConfig(w, in) ==
    \/ UpdateCall(w, in)
    \/ UpdateWrite(w)
    \/ UpdateReload(w)

---------------------------------------------------------------------------
(* Specifications *)

Idle == \A w \in Workers : pc[w] = "idle"

\* Requests served concurrently: the steps of the workers interleave.
Next ==
    \E w \in Workers :
        \/ CreatePool(w, ConcInputs)
        \/ DeletePool(w, ConcInputs)
        \/ UpdatePoolConfig(w, ConcInputs)

Spec == Init /\ [][Next]_vars

\* Requests served one at a time: one worker runs each call to its end.
NextSeq ==
    \/ CreatePool("w1", SeqInputs)
    \/ DeletePool("w1", SeqInputs)
    \/ UpdatePoolConfig("w1", SeqInputs)

SpecSeq == Init /\ [][NextSeq]_vars

\* A configuration file is removed from outside the program (an operator,
\* another tool) while no call runs.
ExternalRemove ==
    /\ Idle
    /\ Cardinality(external) < MaxExternal
    /\ \E path \in DOMAIN files :
         /\ files' = Remove(files, path)
         /\ external' = external \cup {path}
    /\ UNCHANGED <<osFamily, dirs, phpVersions, pools, systemctl, pc, call, ret,
                   ncalls, createdOk, deletedOk>>

NextExt == NextSeq \/ ExternalRemove

\* Requests served one at a time on a host where files may disappear.
SpecExt == Init /\ [][NextExt]_vars

\* The requests of the specification with a supervisor that may not
\* answer.
HangInputs ==
    [ max |-> MaxCallsHang,
      users |-> {alice, bob},
      versions |-> {v82},
      providers |-> {"remi", "lsphp"},
      settings |-> { [k \in {"max_children"} |-> Float64(80)] } ]

\* cmd.Run() of reloadFPMService waits for the systemctl process it
\* started; systemctl does not answer, and the handler stays in the call.
SupervisorHangs(w) ==
    /\ pc[w] \in {"c_reload", "d_reload", "u_reload"}
    /\ systemctl' = systemctl + 1
    /\ Goto(w, "cmd_run", TRUE)
    /\ UNCHANGED <<osFamily, dirs, files, phpVersions, pools,
                   ncalls, createdOk, deletedOk, external>>

NextHang ==
    \/ CreatePool("w1", HangInputs)
    \/ DeletePool("w1", HangInputs)
    \/ UpdatePoolConfig("w1", HangInputs)
    \/ SupervisorHangs("w1")

\* Requests served one at a time with a supervisor that may not answer;
\* a handler that can take a step takes one.
SpecHang == Init /\ [][NextHang]_vars /\ WF_vars(NextHang)

---------------------------------------------------------------------------
(* Provider factory, provider stubs, request defaults and the renderer,
   called on their own *)

rcbob == <<"r", "c", "-", "b", "o", "b">>
v82rc == <<"8", ".", "2", "-", "r", "c">>

\* ProviderFactory.CreateProvider with the lsphp arm building the
\* provider of alt-php.
CreateProviderSwapped(providerType) ==
    CASE providerType = "remi" -> [provider |-> "RemiProvider", err |-> FALSE]
      [] providerType = "lsphp" -> [provider |-> "AltPHPProvider", err |-> FALSE]
      [] providerType = "alt-php" -> [provider |-> "AltPHPProvider", err |-> FALSE]
      [] providerType = "docker" -> [provider |-> "DockerProvider", err |-> FALSE]
      [] OTHER -> [provider |-> "nil", err |-> TRUE]

\* ProviderFactory.CreateProvider: the provider built, or the error
\* "unknown provider type".
CreateProvider(providerType) ==
    CASE providerType = "remi" -> [provider |-> "RemiProvider", err |-> FALSE]
      [] providerType = "lsphp" -> [provider |-> "LiteSpeedProvider", err |-> FALSE]
      [] providerType = "alt-php" -> [provider |-> "AltPHPProvider", err |-> FALSE]
      [] providerType = "docker" -> [provider |-> "DockerProvider", err |-> FALSE]
      [] OTHER -> [provider |-> "nil", err |-> TRUE]

GetDefaultProvider == CreateProvider("remi")

\* GetProviderType of each provider.
GetProviderType(provider) ==
    CASE provider = "RemiProvider" -> "remi"
      [] provider = "LiteSpeedProvider" -> "lsphp"
      [] provider = "AltPHPProvider" -> "alt-php"
      [] provider = "DockerProvider" -> "docker"

\* Router.createPool: the arguments it passes to PoolManager.CreatePool.
RouterCreatePoolArgs(body) ==
    IF body.username = <<>>
    THEN [err |-> "username is required"]
    ELSE [ err |-> "",
           username |-> body.username,
           phpVersion |-> IF body.php_version = <<>> THEN v82 ELSE body.php_version,
           providerType |-> IF body.provider = "" THEN "remi" ELSE body.provider ]

\* Router.installPHP: the provider whose InstallPHP runs (PackageManager
\* .InstallPHP uses the default provider) and the provider the response
\* names.
RouterInstallPHP(providerParam) ==
    [ created |-> IF providerParam # "" THEN CreateProvider(providerParam)
                  ELSE GetDefaultProvider,
      providerUsed |-> IF providerParam = "" THEN "remi" ELSE providerParam ]

\* The operations of the providers that are not implemented yet
\* (DockerProvider, AltPHPProvider): the value and the error returned.
StubInstallPHP(provider, version) ==
    [ value |-> <<>>,
      err |-> IF provider = "DockerProvider"
              THEN "Docker PHP provider not yet implemented"
              ELSE "Alt-PHP provider not yet implemented" ]

StubListInstalledPHP(provider) == [value |-> <<>>, err |-> ""]

StubListAvailablePHP(provider) ==
    [ value |-> << <<"8", ".", "3">>, <<"8", ".", "2">>, <<"8", ".", "1">>,
                   <<"8", ".", "0">>, <<"7", ".", "4">> >>,
      err |-> "" ]

\* The inputs of these calls.
FnInputs ==
    [ providerTypes |-> ProviderTypes \cup {"", "bogus"},
      users |-> {alice, bob, rcbob},
      versions |-> {v82, v82rc},
      settings |-> { [k \in {"max_children", "memory_limit"} |->
                        IF k = "max_children" THEN Float64(80) ELSE String("256M")],
                     [k \in {"max_execution_time", "process_idle_timeout"} |->
                        IF k = "max_execution_time" THEN Float64(30)
                        ELSE String(<<"1", "0", "s">>)] } ]

\* Worker w calls a function: what it called with, what came back.
Called(w, c, r) ==
    /\ call' = [call EXCEPT ![w] = c]
    /\ ret' = [ret EXCEPT ![w] = r]
    /\ UNCHANGED <<osFamily, dirs, files, phpVersions, pools, systemctl, pc,
                   ncalls, createdOk, deletedOk, external>>

CallCreateProvider(w) ==
    /\ pc[w] = "idle"
    /\ \E t \in FnInputs.providerTypes :
           LET c == CreateProvider(t)
           IN  Called(w, [op |-> "CreateProvider", providerType |-> t],
                      [ err |-> c.err,
                        type |-> IF c.err THEN "" ELSE GetProviderType(c.provider) ])

CallGetDefaultProvider(w) ==
    /\ pc[w] = "idle"
    /\ Called(w, [op |-> "GetDefaultProvider"],
              [ err |-> GetDefaultProvider.err,
                type |-> GetProviderType(GetDefaultProvider.provider) ])

CallRouterCreatePool(w) ==
    /\ pc[w] = "idle"
    /\ \E u \in {<<>>, bob}, v \in {<<>>, v82, v99}, t \in {"", "remi", "lsphp"} :
           LET body == [username |-> u, php_version |-> v, provider |-> t]
           IN  Called(w, [op |-> "createPool", body |-> body], RouterCreatePoolArgs(body))

CallRouterInstallPHP(w) ==
    /\ pc[w] = "idle"
    /\ \E t \in FnInputs.providerTypes :
           LET r == RouterInstallPHP(t)
           IN  Called(w, [op |-> "installPHP", providerParam |-> t],
                      [ err |-> r.created.err,
                        type |-> IF r.created.err THEN ""
                                 ELSE GetProviderType(r.created.provider),
                        providerUsed |-> r.providerUsed ])

CallStub(w) ==
    /\ pc[w] = "idle"
    /\ \E t \in {"alt-php", "docker"}, v \in FnInputs.versions :
           LET provider == CreateProvider(t).provider
           IN  \/ Called(w, [op |-> "InstallPHP", providerType |-> t, version |-> v],
                         StubInstallPHP(provider, v))
               \/ Called(w, [op |-> "ListInstalledPHP", providerType |-> t],
                         StubListInstalledPHP(provider))
               \/ Called(w, [op |-> "ListAvailablePHP", providerType |-> t],
                         StubListAvailablePHP(provider))

CallPaths(w) ==
    /\ pc[w] = "idle"
    /\ \E t \in ProviderTypes, u \in FnInputs.users, v \in FnInputs.versions :
           Called(w, [op |-> "paths", providerType |-> t, username |-> u, version |-> v],
                  [ config |-> GetConfigPath(t, u, v), socket |-> GetSocketPath(t, u, v) ])

CallRender(w) ==
    /\ pc[w] = "idle"
    /\ \E u \in {alice, bob}, settings \in FnInputs.settings :
           \E keys \in KeyOrders(settings) :
               LET data == applyPoolSettings(
                               DefaultPoolConfigData(u, GroupName(u), GetSocketPath("remi", u, v82)),
                               settings, keys)
               IN  Called(w, [op |-> "render", username |-> u, settings |-> settings],
                          [data |-> data, text |-> RenderPoolConfig(data)])

CallReload(w) ==
    /\ pc[w] = "idle"
    /\ \E reloadOk \in BOOLEAN, restartOk \in BOOLEAN :
           Called(w, [op |-> "reloadFPMService", reloadOk |-> reloadOk,
                      restartOk |-> restartOk],
                  reloadFPMService(reloadOk, restartOk))

NextFn ==
    \E w \in Workers :
        \/ CallReload(w)
        \/ CallCreateProvider(w)
        \/ CallGetDefaultProvider(w)
        \/ CallRouterCreatePool(w)
        \/ CallRouterInstallPHP(w)
        \/ CallStub(w)
        \/ CallPaths(w)
        \/ CallRender(w)

\* The state after construction, no caller having called anything.
InitFn ==
    /\ osFamily \in {"rhel", "debian"}
    /\ dirs = {}
    /\ files = <<>>
    /\ phpVersions = {}
    /\ pools = {}
    /\ systemctl = 0
    /\ pc = [w \in Workers |-> "idle"]
    /\ call = [w \in Workers |-> [op |-> "none"]]
    /\ ret = [w \in Workers |-> [err |-> ""]]
    /\ ncalls = 0
    /\ createdOk = {}
    /\ deletedOk = {}
    /\ external = {}

\* The functions called on their own, by two callers whose results can
\* be compared.
SpecFn == InitFn /\ [][NextFn]_vars

---------------------------------------------------------------------------
(* Claims *)

\* Worker w returns from the handler op in this step.
Returns(w, op) == pc[w] # "idle" /\ pc'[w] = "idle" /\ call[w].op = op

\* Worker w has returned r from a call of op.
Returned(w, op, r) == pc[w] = "idle" /\ call[w].op = op /\ ret[w] = r

HasRow(rows, key) == \E r \in rows : PoolKey(r) = key

RegistryErrors == {"version_check_failed", "version_register_failed", "db_save_failed"}

C2_AtMostOneWinner ==
    \A w \in Workers : \A o \in Workers \ {w} :
        ( /\ pc[w] = "idle" /\ pc[o] = "idle"
          /\ call[w].op = "create" /\ call[o].op = "create"
          /\ KeyOf(call[w]) = KeyOf(call[o])
          /\ call[w].overlap /\ call[o].overlap
          /\ call[w].fresh /\ call[o].fresh
          /\ ~call[w].fault /\ ~call[o].fault )
        => /\ \/ ret[w] = "ok" /\ ret[o] \in {"already_exists"} \cup RegistryErrors
              \/ ret[o] = "ok" /\ ret[w] \in {"already_exists"} \cup RegistryErrors
           /\ Cardinality(RowsOf(call[w].username)) = 1

\* The CreatePool call of worker o has written its configuration file and
\* has not rolled it back.
WroteFile(o) ==
    /\ call[o].op = "create"
    /\ \/ pc[o] \in {"c_sockdir", "c_getver", "c_regver", "c_insert", "c_reload"}
       \/ /\ pc[o] = "idle"
          /\ ret[o] \in {"ok", "reload_failed", "sockdir_failed",
                         "version_check_failed", "version_register_failed"}

\* C3: a CreatePool never writes the configuration file at a path where
\* the file written by another CreatePool is: whenever a CreatePool writes
\* its file, no file is at the path.
C3_NoOverwrite ==
    [][\A w \in Workers : \A o \in Workers \ {w} :
         ( /\ pc[w] = "c_write" /\ pc'[w] = "c_sockdir"
           /\ WroteFile(o)
           /\ ConfigPathOf(call[o]) = ConfigPathOf(call[w]) )
         => ConfigPathOf(call[w]) \notin DOMAIN files]_vars

\* The config paths a row of the registry or a file can be at.
ConfigPaths == DOMAIN files \cup { r.config_path : r \in pools }

\* C4: whenever no call is running, a configuration file exists at a path
\* if and only if the registry holds a pool row with that config_path.
C4_FilesTrackRegistry ==
    Idle => \A path \in ConfigPaths :
                path \in DOMAIN files <=> \E r \in pools : r.config_path = path

\* C5: a CreatePool that returns an error of the socket directory, of the
\* runtime-version lookup, of the runtime-version registration or of the
\* pool-row insert has removed the configuration file it wrote.
C5_NoHalfCommitted ==
    [][\A w \in Workers :
         ( /\ Returns(w, "create")
           /\ ret'[w] \in {"sockdir_failed", "version_check_failed",
                           "version_register_failed", "db_save_failed"} )
         => ConfigPathOf(call[w]) \notin DOMAIN files']_vars

\* C6: once a CreatePool(u, v, p) that started while u had no pool has
\* returned success, the lookup of the pool of u (Database.GetPool and the
\* GET route alike) finds one record, of version v, provider p and status
\* "active".
C6_CreatedPoolIsFound ==
    \A w \in Workers :
        (Returned(w, "create", "ok") /\ call[w].fresh)
        => /\ \E r \in pools :
                /\ DbGetPool(call[w].username) = {r}
                /\ r.php_version = call[w].phpVersion
                /\ r.provider = call[w].providerType
                /\ r.status = "active"
           /\ \E r \in RouterGetPool(call[w].username) :
                /\ RouterGetPool(call[w].username) = {r}
                /\ r.PHPVersion = call[w].phpVersion
                /\ r.Provider = call[w].providerType
                /\ r.Status = "active"

\* A CreatePool of a user without pool has returned success while the
\* registry holds the pool of another user as well.
C6_Witness ==
    \E w \in Workers :
        /\ Returned(w, "create", "ok") /\ call[w].fresh
        /\ \E r \in pools : r.username # call[w].username
        /\ DbGetPool(call[w].username) # {}

\* A step of a call of worker w (the entry included).
StepOf(w) == pc[w] # "idle" \/ pc'[w] # "idle" \/ ncalls' # ncalls

\* C7: a CreatePool(u, v, p) issued after a CreatePool(u, v, p) has
\* returned success, with no DeletePool(u) since, changes neither files nor
\* pool rows at any of its steps and returns pool-already-exists.
C7_SecondCreateFails ==
    [][\A w \in Workers :
         ( /\ StepOf(w)
           /\ call'[w].op = "create"
           /\ KeyOf(call'[w]) \in createdOk )
         => /\ files' = files
            /\ pools' = pools
            /\ pc'[w] = "idle" => ret'[w] = "already_exists"]_vars

\* A CreatePool of a pool created before and not deleted since has
\* returned pool-already-exists.
C7_Witness ==
    \E w \in Workers :
        /\ Returned(w, "create", "already_exists")
        /\ KeyOf(call[w]) \in createdOk
        /\ HasRow(pools, KeyOf(call[w]))
        /\ ConfigPathOf(call[w]) \in DOMAIN files

\* C8: when DeletePool(u) returns success the lookup of the pool of u
\* finds nothing; a DeletePool(u) issued after that, with no CreatePool of
\* u since and its own registry lookup not failing, returns pool-not-found
\* at once and leaves files, directories, registry and supervisor alone.
C8_DeleteThenNotFound ==
    [][\A w \in Workers :
         /\ ( /\ pc[w] = "d_delete" /\ pc'[w] = "idle" /\ ret'[w] = "ok" )
            => /\ DbGetPool(call[w].username)' = {}
               /\ RouterGetPool(call[w].username)' = {}
         /\ ( /\ pc[w] = "idle" /\ ncalls' # ncalls
              /\ call'[w].op = "delete"
              /\ call'[w].username \in deletedOk
              /\ ~call'[w].fault )
            => /\ pc'[w] = "idle"
               /\ ret'[w] = "not_found"
               /\ UNCHANGED <<files, dirs, pools, phpVersions, systemctl>>]_vars

\* A second DeletePool of a user has returned pool-not-found.
C8_Witness ==
    \E w \in Workers :
        /\ Returned(w, "delete", "not_found")
        /\ call[w].username \in deletedOk
        /\ systemctl > 0

\* The errors CreatePool returns before it touches the filesystem.
ValidationErrors == {"user_not_found", "invalid_provider"}

\* C9: a CreatePool of an existing user with a provider it knows and a
\* version the provider does not offer, started while the pool has
\* neither file nor row and meeting no failure of the disk, the database
\* engine or systemd, returns a validation error, and afterwards no file
\* is at its config path, no row of it is in the registry and the
\* directory of its config path has not been created.
C9_InvalidVersionRejected ==
    \A w \in Workers :
        ( /\ pc[w] = "idle" /\ call[w].op = "create"
          /\ UserExists(call[w].username)
          /\ ProviderTypeEnum(call[w].providerType) # ""
          /\ call[w].phpVersion \notin ListAvailablePHP
          /\ call[w].fresh
          /\ ~call[w].fault )
        => /\ ret[w] \in ValidationErrors
           /\ ConfigPathOf(call[w]) \notin DOMAIN files
           /\ ~HasRow(pools, KeyOf(call[w]))
           /\ Dir(ConfigPathOf(call[w])) \notin dirs

\* C10: a DeletePool(u) that found the row of u, whose configuration file
\* had been removed from outside and was missing when the call started,
\* and whose registry calls do not fail, returns success with no row of u
\* left.
C10_DeleteToleratesMissingFile ==
    [][\A w \in Workers :
         ( /\ Returns(w, "delete")
           /\ call[w].dbPool # NoPool
           /\ call[w].dbPool.config_path \in external
           /\ call[w].dbPool.config_path \notin DOMAIN call[w].pre.files
           /\ ~call'[w].fault )
         => /\ ret'[w] = "ok"
            /\ RowsOf(call[w].username)' = {}]_vars

\* A DeletePool of a pool whose file was removed from outside has
\* returned success.
C10_Witness ==
    \E w \in Workers :
        /\ Returned(w, "delete", "ok")
        /\ external # {}
        /\ \A path \in external : path \notin DOMAIN files
        /\ RowsOf(call[w].username) = {}
        /\ dirs # {}

\* The override key that sets a directive of the pool file ("" for the
\* directives no override sets).
SettingOf(directive) ==
    CASE directive = "listen.mode" -> "listen_mode"
      [] directive = "pm" -> "process_manager"
      [] directive = "pm.max_children" -> "max_children"
      [] directive = "pm.start_servers" -> "start_servers"
      [] directive = "pm.min_spare_servers" -> "min_spare_servers"
      [] directive = "pm.max_spare_servers" -> "max_spare_servers"
      [] directive = "pm.max_requests" -> "max_requests"
      [] directive = "pm.process_idle_timeout" -> "process_idle_timeout"
      [] directive = "php_flag[display_errors]" -> "display_errors"
      [] directive = "php_admin_flag[log_errors]" -> "log_errors"
      [] directive = "php_admin_value[memory_limit]" -> "memory_limit"
      [] directive = "php_admin_value[max_execution_time]" -> "max_execution_time"
      [] OTHER -> ""

\* The values a pool file gives a directive.
ValuesOf(content, directive) ==
    { content[i][2] : i \in { j \in DOMAIN content : content[j][1] = directive } }

\* C11: an UpdatePoolConfig that rewrites a complete pool file leaves
\* every setting its override map does not name at the value the file
\* had, so that every setting is at its latest override or, never
\* overridden, at its default.
C11_ReconfigurePreserves ==
    [][\A w \in Workers :
         LET path == call[w].dbPool.config_path
         IN  ( /\ pc[w] = "u_write" /\ pc'[w] = "u_reload"
               /\ path \in DOMAIN files
               /\ files[path] # Truncated )
             => \A i \in DOMAIN files[path] :
                    SettingOf(files[path][i][1]) \notin DOMAIN call[w].settings
                    => ValuesOf(files'[path], files[path][i][1]) = {files[path][i][2]}]_vars

\* Worker w starts a call at this step.
Entering(w) == pc[w] = "idle" /\ ncalls' # ncalls /\ call'[w].op # "none"

Untouched == UNCHANGED <<files, dirs, pools, phpVersions, systemctl>>

\* C12: a CreatePool of a user that is no OS account or of a provider
\* type that is not known returns its validation error at once, and so
\* does a DeletePool or UpdatePoolConfig of a user without pool row (its
\* registry lookup not failing); none of them changes files, directories,
\* the two registry tables or the supervisor, and no call returns one of
\* these errors later than at its entry.
C12_ValidationNoSideEffects ==
    [][\A w \in Workers :
         /\ ( /\ Entering(w) /\ call'[w].op = "create"
              /\ \/ call'[w].username \notin ExistingUsers
                 \/ call'[w].providerType \notin ProviderTypes )
            => /\ pc'[w] = "idle"
               /\ ret'[w] = IF call'[w].username \notin ExistingUsers
                             THEN "user_not_found" ELSE "invalid_provider"
               /\ Untouched
         /\ ( /\ Entering(w) /\ call'[w].op \in {"delete", "update"}
              /\ RowsOf(call'[w].username) = {}
              /\ ~call'[w].fault )
            => /\ pc'[w] = "idle"
               /\ ret'[w] = "not_found"
               /\ Untouched
         /\ ( /\ StepOf(w) /\ pc'[w] = "idle" /\ call'[w].op # "none"
              /\ ret'[w] \in ValidationErrors \cup {"not_found"} )
            => /\ pc[w] = "idle"
               /\ Untouched]_vars

\* A CreatePool with an unknown provider type has been refused while
\* pools exist.
C12_Witness ==
    \E w \in Workers :
        /\ Returned(w, "create", "invalid_provider")
        /\ pools # {}
        /\ DOMAIN files # {}

\* C13: when the reload at the end of CreatePool fails, CreatePool
\* returns the reload error, not success, and the pool row and the
\* configuration file it created are still there.
C13_CreateReloadFailure ==
    [][\A w \in Workers :
         (pc[w] = "c_reload" /\ pc'[w] = "idle" /\ call'[w].fault)
         => /\ ret'[w] = "reload_failed"
            /\ HasRow(pools', KeyOf(call[w]))
            /\ ConfigPathOf(call[w]) \in DOMAIN files'
            /\ files'[ConfigPathOf(call[w])] # Truncated]_vars

\* A CreatePool has returned the reload error with its row and its file
\* in place, both reload commands having been run.
C13_Witness ==
    \E w \in Workers :
        /\ Returned(w, "create", "reload_failed")
        /\ HasRow(pools, KeyOf(call[w]))
        /\ ConfigPathOf(call[w]) \in DOMAIN files
        /\ systemctl >= 2

\* C14: when the reload of DeletePool(u) fails, DeletePool goes on to the
\* registry delete with the configuration file removed, and when it then
\* returns success no row of u is left and the file is still removed.
C14_DeleteReloadFailure ==
    [][\A w \in Workers :
         /\ (pc[w] = "d_reload" /\ call'[w].fault)
            => /\ pc'[w] = "d_delete"
               /\ call[w].dbPool.config_path \notin DOMAIN files'
         /\ (pc[w] = "d_delete" /\ call[w].fault /\ pc'[w] = "idle" /\ ret'[w] = "ok")
            => /\ RowsOf(call[w].username)' = {}
               /\ call[w].dbPool.config_path \notin DOMAIN files']_vars

\* A DeletePool whose reload failed has returned, the rows of its user
\* deleted.
C14_Witness ==
    \E w \in Workers :
        /\ Returned(w, "delete", "ok")
        /\ call[w].fault
        /\ RowsOf(call[w].username) = {}
        /\ systemctl >= 3

\* C15: a DeletePool whose reload failed (reload and reload-or-restart
\* both) does not return what a DeletePool whose reload succeeded
\* returns: it does not return success.
C15_DeleteReportsReloadFailure ==
    \A w \in Workers :
        (pc[w] = "idle" /\ call[w].op = "delete" /\ call[w].fault)
        => ret[w] # "ok"

\* C16: the registry never holds more than one pool row of a username.
C16_OnePoolPerUsername ==
    \A r1 \in pools : \A r2 \in pools : r1.username = r2.username => r1 = r2

C18_StubsReturnNotImplemented ==
    \A w \in Workers :
        ( /\ call[w].op \in {"InstallPHP", "ListInstalledPHP", "ListAvailablePHP"}
          /\ call[w].providerType \in {"docker", "alt-php"} )
        => ret[w].err \in { "Docker PHP provider not yet implemented",
                            "Alt-PHP provider not yet implemented" }

\* C19: the config paths of two distinct usernames under one provider
\* differ, whatever the versions, and so do their socket paths; the same
\* username and version give the same paths.
C19_PathsNeverCollide ==
    \A w \in Workers : \A o \in Workers :
        ( /\ call[w].op = "paths" /\ call[o].op = "paths"
          /\ call[w].providerType = call[o].providerType )
        => /\ call[w].username # call[o].username
              => /\ ret[w].config # ret[o].config
                 /\ ret[w].socket # ret[o].socket
           /\ ( /\ call[w].username = call[o].username
                /\ call[w].version = call[o].version )
              => ret[w] = ret[o]

TwoDeletes(w, o) ==
    /\ pc[w] = "idle" /\ pc[o] = "idle"
    /\ call[w].op = "delete" /\ call[o].op = "delete"
    /\ call[w].username = call[o].username
    /\ call[w].overlap /\ call[o].overlap
    /\ ret[w] \notin {"not_found", "db_get_failed"}
    /\ ret[o] \notin {"not_found", "db_get_failed"}

\* C21: of two DeletePool calls of one user that run at the same time,
\* both having found the pool row, at most one returns success; a call
\* whose registry delete affects no row returns the registry error and
\* changes nothing; and once both have returned, one of them with success
\* (which is the case whenever neither met a failure of the disk, the
\* database engine or systemd), no pool row of the user is left.
C21_ConcurrentDeletes ==
    [][\A w \in Workers : \A o \in Workers \ {w} :
         /\ (pc[w] = "d_delete" /\ pc'[w] = "idle" /\ RowsOf(call[w].username) = {})
            => /\ ret'[w] = "db_delete_failed"
               /\ pools' = pools
         /\ TwoDeletes(w, o)'
            => /\ ~(ret'[w] = "ok" /\ ret'[o] = "ok")
               /\ (ret'[w] = "ok" \/ ret'[o] = "ok")
                  => \A r \in pools' : r.username # call'[w].username
               /\ (~call'[w].fault /\ ~call'[o].fault)
                  => (ret'[w] = "ok" \/ ret'[o] = "ok")]_vars

\* Two DeletePool calls of one user have run at the same time: one has
\* returned success, the other the registry error of a delete that
\* affected no row.
C21_Witness ==
    \E w \in Workers : \E o \in Workers \ {w} :
        /\ TwoDeletes(w, o)
        /\ ret[w] = "ok" /\ ret[o] = "db_delete_failed"
        /\ ~call[o].fault
        /\ RowsOf(call[w].username) = {}

\* The configuration file of the CreatePool call c has been written.
FileWritten(fs, c) ==
    /\ ConfigPathOf(c) \in DOMAIN fs
    /\ fs[ConfigPathOf(c)] = generatePoolConfig(c.username, SocketPathOf(c))

\* What a CreatePool does in the order of C22: no step before the lookup
\* of the runtime version changes a registry table, the errors of the
\* directories and of the file are returned from these steps, and a step
\* that changes a registry table finds the configuration file written.
CreateStepsInOrder(w) ==
    /\ ( /\ StepOf(w) /\ call'[w].op = "create"
         /\ pc[w] \in {"idle", "c_mkdir", "c_stat", "c_write", "c_sockdir", "c_getver"} )
       => /\ pools' = pools
          /\ phpVersions' = phpVersions
    /\ ( /\ Returns(w, "create")
         /\ ret'[w] \in {"mkdir_failed", "write_failed", "sockdir_failed"} )
       => /\ pc[w] \in {"c_mkdir", "c_write", "c_sockdir"}
          /\ pools' = call[w].pre.pools
    /\ ( /\ StepOf(w) /\ call'[w].op = "create"
         /\ (pools' # pools \/ phpVersions' # phpVersions) )
       => /\ FileWritten(files, call[w])
          /\ FileWritten(files', call[w])

Deleting(w) == pc[w] \in {"d_stat", "d_remove", "d_reload", "d_delete"}

\* C23: in every state of a running DeletePool the row it looked up is in
\* the registry; the step that deletes the rows is its last step and
\* changes nothing else, a DeletePool that returns an error leaves the
\* row in the registry, and when the rows are deleted the configuration
\* file it looked up is not there.
C23_DeleteOrdering ==
    [][\A w \in Workers :
         /\ Deleting(w)' => call'[w].dbPool \in pools'
         /\ (Deleting(w) /\ pools' # pools)
            => /\ pc[w] = "d_delete" /\ pc'[w] = "idle" /\ ret'[w] = "ok"
               /\ UNCHANGED <<files, dirs, phpVersions, systemctl>>
               /\ call[w].dbPool.config_path \notin DOMAIN files'
               /\ \A r \in pools' : r.username # call[w].username
         /\ (Deleting(w) /\ pc'[w] = "idle" /\ ret'[w] # "ok")
            => call[w].dbPool \in pools']_vars

\* A DeletePool has removed the configuration file and has run both
\* reload commands, its registry delete still to do: the row it looked up
\* is in the registry.
C23_Witness ==
    \E w \in Workers :
        /\ pc[w] = "d_delete"
        /\ call[w].dbPool \in pools
        /\ call[w].dbPool.config_path \notin DOMAIN files
        /\ call[w].dbPool.config_path \in DOMAIN call[w].pre.files
        /\ systemctl >= 3

\* C24: when the reload at the end of UpdatePoolConfig fails,
\* UpdatePoolConfig returns the reload error, the configuration file
\* holds the configuration the call rendered (the step does not touch the
\* file) and the pools table is as it was when the call started.
C24_UpdateReloadFailure ==
    [][\A w \in Workers :
         (pc[w] = "u_reload" /\ pc'[w] = "idle" /\ call'[w].fault)
         => LET path == call[w].dbPool.config_path
            IN  /\ ret'[w] = "reload_failed"
                /\ files' = files
                /\ path \in DOMAIN files'
                /\ \E keys \in KeyOrders(call[w].settings) :
                       files'[path] = UpdatedConfig(call[w], keys)
                /\ pools' = pools
                /\ pools' = call[w].pre.pools]_vars

\* An UpdatePoolConfig setting max_children has returned the reload
\* error; the file of the pool holds the new value, not the default.
C24_Witness ==
    \E w \in Workers :
        /\ Returned(w, "update", "reload_failed")
        /\ "max_children" \in DOMAIN call[w].settings
        /\ \E r \in RowsOf(call[w].username) :
              /\ r.config_path \in DOMAIN files
              /\ ValuesOf(files[r.config_path], "pm.max_children") = {80}

\* The documented default of a directive of the pool file.
DocumentedDefaults ==
    { <<"pm.max_children", 50>>, <<"pm.start_servers", 5>>,
      <<"pm.min_spare_servers", 5>>, <<"pm.max_spare_servers", 35>>,
      <<"pm.max_requests", 500>>, <<"pm", "dynamic">>,
      <<"php_admin_value[memory_limit]", "128M">>, <<"listen.mode", "0660">> }

NumericDirectives ==
    { "pm.max_children", "pm.start_servers", "pm.min_spare_servers",
      "pm.max_spare_servers", "pm.max_requests" }

\* The override map gives the directive a value of a type its key takes.
IsSet(settings, directive) ==
    /\ SettingOf(directive) \in DOMAIN settings
    /\ settings[SettingOf(directive)].t =
          IF directive \in NumericDirectives THEN "float64" ELSE "string"

\* The written file gives every directive the override map does not set
\* its documented default, and none of its unset numeric directives is 0.
CarriesDefaults(content, settings) ==
    /\ \A d \in DocumentedDefaults :
          ~IsSet(settings, d[1]) => ValuesOf(content, d[1]) = {d[2]}
    /\ \A n \in NumericDirectives :
          ~IsSet(settings, n) => 0 \notin ValuesOf(content, n)

\* C25: the configuration file CreatePool writes carries the documented
\* default of every field, and the file an UpdatePoolConfig writes
\* carries the documented default of every field its override map omits
\* or gives a value of a type the field does not take; no unset numeric
\* field is written as 0.
C25_DefaultsForUnsetFields ==
    [][\A w \in Workers :
         /\ (pc[w] = "c_write" /\ pc'[w] = "c_sockdir")
            => CarriesDefaults(files'[ConfigPathOf(call[w])], <<>>)
         /\ (pc[w] = "u_write" /\ pc'[w] = "u_reload")
            => CarriesDefaults(files'[call[w].dbPool.config_path], call[w].settings)]_vars

\* An UpdatePoolConfig whose override map gives max_children a string and
\* max_requests a number has written the file: max_children is at its
\* default and max_requests at the override.
C25_Witness ==
    \E w \in Workers :
        /\ pc[w] = "u_reload"
        /\ "max_requests" \in DOMAIN call[w].settings
        /\ call[w].settings["max_children"].t = "string"
        /\ ValuesOf(files[call[w].dbPool.config_path], "pm.max_children") = {50}
        /\ ValuesOf(files[call[w].dbPool.config_path], "pm.max_requests") = {100}

\* C26: reloadFPMService runs "systemctl reload" first; it runs
\* "systemctl reload-or-restart" after it if and only if the reload
\* failed, and nothing else; it returns an error if and only if both
\* failed.
C26_ReloadFallback ==
    \A w \in Workers :
        call[w].op = "reloadFPMService"
        => /\ ret[w].cmds[1] = "reload"
           /\ ret[w].cmds \in {<<"reload">>, <<"reload", "reload-or-restart">>}
           /\ Len(ret[w].cmds) = 2 <=> ~call[w].reloadOk
           /\ ret[w].err <=> (~call[w].reloadOk /\ ~call[w].restartOk)

\* One caller's reload failed and its reload-or-restart succeeded: no
\* error; the other caller's two commands both failed: an error.
C26_Witness ==
    \E w \in Workers : \E o \in Workers \ {w} :
        /\ call[w].op = "reloadFPMService" /\ call[o].op = "reloadFPMService"
        /\ ~call[w].reloadOk /\ call[w].restartOk
        /\ Len(ret[w].cmds) = 2 /\ ~ret[w].err
        /\ ~call[o].reloadOk /\ ~call[o].restartOk
        /\ ret[o].err

\* C27: every CreatePool, DeletePool and UpdatePoolConfig call returns,
\* also when the supervisor never answers its reload command.
C27_BoundedReload ==
    \A w \in Workers : (pc[w] # "idle") ~> (pc[w] = "idle")

\* C28: the PHP version of every pool row has a row in php_versions, and
\* no version has two; a CreatePool that finds its version without row
\* goes on to insert one, the insert adds exactly the row of that version
\* tagged with the provider of the request, and no step of CreatePool,
\* DeletePool or UpdatePoolConfig adds another row, removes a row or
\* changes one.
C28_VersionRegistration ==
    [][/\ \A r \in pools' : \E v \in phpVersions' : v.version = r.php_version
       /\ \A v1 \in phpVersions' : \A v2 \in phpVersions' :
             v1.version = v2.version => v1 = v2
       /\ phpVersions \subseteq phpVersions'
       /\ \A w \in Workers :
             ( /\ pc[w] = "c_getver" /\ pc'[w] # "c_getver"
               /\ ~DbHasPHPVersion(call[w].phpVersion)
               /\ ~call'[w].fault )
             => pc'[w] = "c_regver"
       /\ phpVersions' # phpVersions
          => \E w \in Workers :
                /\ pc[w] = "c_regver" /\ pc'[w] = "c_insert"
                /\ ~DbHasPHPVersion(call[w].phpVersion)
                /\ phpVersions' \ phpVersions =
                      { [ version |-> call[w].phpVersion,
                          package_manager |-> call[w].providerType,
                          os_family |-> osFamily, status |-> "active" ] }]_vars

\* Two pools of one PHP version, the version registered once, by a
\* CreatePool with provider lsphp.
C28_Witness ==
    /\ \E r1 \in pools : \E r2 \in pools :
          r1.username # r2.username /\ r1.php_version = r2.php_version
    /\ \E v \in phpVersions : phpVersions = {v} /\ v.package_manager = "lsphp"

\* The config paths a pool of the user can have in the concurrent
\* specification.
PoolPathsOf(username) ==
    { GetConfigPath(p, username, v) :
        p \in ConcInputs.providers, v \in ConcInputs.versions }

\* C29: once a DeletePool(u) and a CreatePool(u, v, p) or
\* UpdatePoolConfig(u, ...) that ran at the same time have both returned
\* success, neither having met a failure of the disk, the database engine
\* or systemd, a configuration file is at a config path of u if and only
\* if a pool row with that config path is in the registry.
C29_ConcurrentMutations ==
    \A w \in Workers : \A o \in Workers \ {w} :
        ( /\ pc[w] = "idle" /\ pc[o] = "idle"
          /\ call[w].op = "delete" /\ call[o].op \in {"create", "update"}
          /\ call[w].username = call[o].username
          /\ call[w].overlap /\ call[o].overlap
          /\ ret[w] = "ok" /\ ret[o] = "ok"
          /\ ~call[w].fault /\ ~call[o].fault )
        => \A path \in PoolPathsOf(call[w].username) :
               path \in DOMAIN files <=> \E r \in pools : r.config_path = path

\* C30: once two CreatePool calls of two different users and one PHP
\* version that ran at the same time, each starting while its pool had
\* neither file nor row, have both returned, neither having met a failure
\* of the disk, the database engine or systemd, both have returned
\* success, the version has exactly one row in php_versions and each
\* user has its pool row and its configuration file.
C30_IndependentCreates ==
    \A w \in Workers : \A o \in Workers \ {w} :
        ( /\ pc[w] = "idle" /\ pc[o] = "idle"
          /\ call[w].op = "create" /\ call[o].op = "create"
          /\ call[w].username # call[o].username
          /\ call[w].phpVersion = call[o].phpVersion
          /\ call[w].overlap /\ call[o].overlap
          /\ call[w].fresh /\ call[o].fresh
          /\ ~call[w].fault /\ ~call[o].fault )
        => /\ ret[w] = "ok" /\ ret[o] = "ok"
           /\ Cardinality({ v \in phpVersions : v.version = call[w].phpVersion }) = 1
           /\ \A c \in {call[w], call[o]} :
                 /\ HasRow(pools, KeyOf(c))
                 /\ ConfigPathOf(c) \in DOMAIN files

=============================================================================
